---- MODULE Spec2Model ----
(***************************************************************************)
(* Model of the gRPC-HTTP bridge (cmd/bridge/main.go).                     *)
(*                                                                         *)
(* The bridge is an HTTP server with two routes: GET /health and           *)
(* POST / * (handleRPC).  Requests are handled concurrently, one goroutine *)
(* per request.  Strings that the code takes apart (URL paths) are         *)
(* sequences of one-character strings; strings it only copies (bodies,     *)
(* messages) are TLA+ strings.                                             *)
(***************************************************************************)
EXTENDS Integers, Sequences, FiniteSets, TLC

VARIABLES req, log, grpcCalls, msg, out

vars == <<req, log, grpcCalls, msg, out>>

(***************************************************************************)
(* Bounds.                                                                 *)
(***************************************************************************)
\* number of HTTP requests the server receives in one run
NumReq == 2
\* longest URL path after its leading slash, in characters
MaxPathLen == 5
\* most fields of a message handed to messageToJSON
MaxFields == 2
\* largest field value (0 is the zero value)
MaxVal == 1

Req == 1..NumReq

None == "none"

(***************************************************************************)
(* Strings.                                                                *)
(***************************************************************************)
Slash == "/"

\* characters URL paths are made of in the path-splitting specification
Chars == {Slash, ".", "a"}

\* all sequences over S of length at most n
SeqsUpTo(S, n) == UNION {[1..k -> S] : k \in 0..n}

\* strings.TrimPrefix(s, "/")
TrimPrefix(s) == IF Len(s) >= 1 /\ s[1] = Slash THEN Tail(s) ELSE s

\* strings.Split(s, "/"): the substrings between the slashes; a string
\* without a slash (the empty one too) yields one element
RECURSIVE Split(_)
Split(s) ==
    IF \E k \in 1..Len(s) : s[k] = Slash
    THEN LET k == CHOOSE j \in 1..Len(s) :
                      /\ s[j] = Slash
                      /\ \A h \in 1..(j - 1) : s[h] # Slash
         IN  <<SubSeq(s, 1, k - 1)>> \o Split(SubSeq(s, k + 1, Len(s)))
    ELSE <<s>>

\* fmt.Sprintf("/%s/%s", service, method)
FullMethod(service, method) == <<Slash>> \o service \o <<Slash>> \o method

(***************************************************************************)
(* HTTP statuses and bodies.                                               *)
(***************************************************************************)
StatusOK == 200
StatusBadRequest == 400

\* request bodies; ReadError stands for io.ReadAll returning an error
Bodies == {"{}", "{\"name\":\"Ada\"}"}
ReadError == "read error"

\* the text http.Error sends for a path that is not /{service}/{method}
InvalidPath == "Invalid path format. Use: /{service}/{method}"
\* the text http.Error sends when the body cannot be read
BodyFailed == "Failed to read body"

NoResponse == [type |-> "none"]

\* http.Error(w, text, code): a plain-text body
TextResponse(text) == [type |-> "text/plain", text |-> text]

\* the JSON object handleRPC answers with
Placeholder(service, method, body) ==
    [type    |-> "application/json",
     status  |-> "bridge_working",
     note    |-> "Full dynamic invocation coming in next iteration",
     service |-> service,
     method  |-> method,
     body    |-> body]

\* the JSON object of the health check (its timestamp is left out)
HealthResponse ==
    [type       |-> "application/json",
     status     |-> "ok",
     grpc_addr  |-> "grpcAddr",
     reflection |-> TRUE]

(***************************************************************************)
(* The paths of the requests of the concurrent specification: the          *)
(* services and methods of the example backend, and one path without a     *)
(* method.                                                                 *)
(***************************************************************************)
Greeter == <<"p", ".", "G">>
Unknown == <<"p", ".", "U">>
SayHello == <<"S">>
Watch == <<"W">>
Nonexistent == <<"N">>

RequestPaths ==
    {FullMethod(s, m) : s \in {Greeter, Unknown},
                        m \in {SayHello, Watch, Nonexistent}}
    \cup {<<Slash>> \o Greeter}

\* every path of at most MaxPathLen characters after the leading slash
AllPaths == {<<Slash>> \o r : r \in SeqsUpTo(Chars, MaxPathLen)}

(***************************************************************************)
(* Requests.  pc is the handler's position; hist the positions the call    *)
(* has been in, oldest first.                                              *)
(***************************************************************************)
IdleRequest ==
    [pc         |-> "Idle",
     route      |-> None,
     path       |-> <<>>,
     service    |-> <<>>,
     method     |-> <<>>,
     fullMethod |-> <<>>,
     status     |-> 0,
     resp       |-> NoResponse,
     hist       |-> <<>>]

\* the handler of request i moves to position pc
Goto(r, pc) == [r EXCEPT !.pc = pc, !.hist = Append(@, pc)]

\* the handler answers with a status and a body
Reply(r, status, resp) == [r EXCEPT !.status = status, !.resp = resp]

\* the test written as len(parts) < 2: deeper paths pass
PathAcceptedDeep(parts) == Len(parts) >= 2

\* len(parts) != 2 is the path handleRPC refuses
PathAccepted(parts) == Len(parts) = 2

\* r.Post("/*", b.handleRPC): a POST request reaches handleRPC
ArrivePost(i, paths) ==
    /\ req[i].pc = "Idle"
    /\ \E p \in paths :
         req' = [req EXCEPT ![i] =
                   Goto([@ EXCEPT !.route = "rpc", !.path = p], "Received")]
    /\ UNCHANGED <<log, grpcCalls, msg, out>>

\* r.Get("/health", ...): the health check answers at once
Health(i) ==
    /\ req[i].pc = "Idle"
    /\ req' = [req EXCEPT ![i] =
                 Goto(Reply([@ EXCEPT !.route = "health",
                                      !.path = <<Slash, "h">>],
                            StatusOK, HealthResponse),
                      "Responded")]
    /\ UNCHANGED <<log, grpcCalls, msg, out>>

\* handleRPC up to io.ReadAll: split the path, refuse it with 400 or log
\* the call
HandleRPCPath(i) ==
    /\ req[i].pc = "Received"
    /\ LET path  == TrimPrefix(req[i].path)
           parts == Split(path)
       IN  IF ~PathAccepted(parts)
           THEN /\ req' = [req EXCEPT ![i] =
                             Goto(Reply(@, StatusBadRequest,
                                        TextResponse(InvalidPath)),
                                  "Failed")]
                /\ UNCHANGED log
           ELSE LET service == parts[1]
                    method  == parts[2]
                IN  /\ req' = [req EXCEPT ![i] =
                                 Goto([@ EXCEPT
                                         !.service = service,
                                         !.method = method,
                                         !.fullMethod =
                                             FullMethod(service, method)],
                                      "ReadingBody")]
                    /\ log' = Append(log, [line |-> "call", req |-> i])
    /\ UNCHANGED <<grpcCalls, msg, out>>

\* handleRPC from io.ReadAll on: a body that cannot be read is answered
\* with 400, any other with the placeholder object and status 200
HandleRPCBody(i) ==
    /\ req[i].pc = "ReadingBody"
    /\ \E body \in Bodies \cup {ReadError} :
         IF body = ReadError
         THEN /\ req' = [req EXCEPT ![i] =
                           Goto(Reply(@, StatusBadRequest,
                                      TextResponse(BodyFailed)),
                                "Failed")]
              /\ UNCHANGED log
         ELSE /\ req' = [req EXCEPT ![i] =
                           Goto(Reply(@, StatusOK,
                                      Placeholder(@.service, @.method, body)),
                                "Responded")]
              /\ log' = Append(log, [line |-> "sent", req |-> i])
    /\ UNCHANGED <<grpcCalls, msg, out>>

\* invokeRPC: no step of the dynamic invocation is written; every call
\* returns no response and the error
invokeRPC(fullMethod, reqJSON) ==
    [resp |-> None, err |-> "not implemented yet"]

(***************************************************************************)
(* messageToJSON.  A message is a sequence of fields.  A field without     *)
(* presence ("implicit") is populated when its value is not zero; a field  *)
(* with presence, in a oneof ("oneof") or not ("explicit"), is populated   *)
(* when it is set.                                                         *)
(***************************************************************************)
Presences == {"implicit", "oneof", "explicit"}

Fields ==
    {f \in [presence : Presences, set : BOOLEAN, val : 0..MaxVal] :
        IF f.presence = "implicit"
        THEN f.set = (f.val # 0)
        ELSE f.set \/ f.val = 0}

Messages == SeqsUpTo(Fields, MaxFields)

\* protoreflect Message.Has
Has(f) == IF f.presence = "implicit" THEN f.val # 0 ELSE f.set

Omitted == [emit |-> "omitted"]
Null == [emit |-> "null"]
Value(v) == [emit |-> "value", val |-> v]

\* the marshaler left at protojson's default
EmitUnpopulatedOff == FALSE

\* MarshalOptions.EmitUnpopulated as messageToJSON sets it
EmitUnpopulated == TRUE

\* what protojson writes for one field under the marshaler's options
MarshalField(f) ==
    IF Has(f) THEN Value(f.val)
    ELSE IF ~EmitUnpopulated THEN Omitted
    ELSE IF f.presence = "oneof" THEN Omitted
    ELSE IF f.presence = "explicit" THEN Null
    ELSE Value(0)

\* messageToJSON(msg): the JSON object, field by field
messageToJSON(m) == [k \in 1..Len(m) |-> MarshalField(m[k])]

NotEncoded == [done |-> FALSE, json |-> <<>>]

Encode ==
    /\ ~out.done
    /\ out' = [done |-> TRUE, json |-> messageToJSON(msg)]
    /\ UNCHANGED <<req, log, grpcCalls, msg>>

(***************************************************************************)
(* The state: req, the requests the server handles; log, the lines         *)
(* handleRPC prints; grpcCalls, the RPCs sent over the backend connection  *)
(* (b.grpcConn, b.reflClient); msg and out, the argument and the result of *)
(* messageToJSON.                                                          *)
(***************************************************************************)
TypeOK ==
    /\ \A i \in Req :
         /\ req[i].pc \in {"Idle", "Received", "ReadingBody",
                           "Responded", "Failed"}
         /\ req[i].route \in {None, "rpc", "health"}
         /\ req[i].status \in {0, StatusOK, StatusBadRequest}
         /\ (req[i].status # 0) = (req[i].pc \in {"Responded", "Failed"})
    /\ \A k \in 1..Len(log) :
         log[k].line \in {"call", "sent"} /\ log[k].req \in Req
    /\ grpcCalls = <<>>
    /\ msg \in Messages
    /\ out.done \in BOOLEAN

(***************************************************************************)
(* Specifications.                                                         *)
(***************************************************************************)
\* the bridge after NewBridge and Serve: no request yet, nothing sent over
\* the gRPC connection
Init ==
    /\ req = [i \in Req |-> IdleRequest]
    /\ log = <<>>
    /\ grpcCalls = <<>>
    /\ msg = <<>>
    /\ out = NotEncoded

Next ==
    \E i \in Req :
        \/ ArrivePost(i, RequestPaths)
        \/ Health(i)
        \/ HandleRPCPath(i)
        \/ HandleRPCBody(i)

\* NumReq concurrent requests to the example backend's paths
Spec == Init /\ [][Next]_vars

NextPath ==
    \/ ArrivePost(1, AllPaths)
    \/ HandleRPCPath(1)
    \/ HandleRPCBody(1)

\* one request with any path
SpecPath == Init /\ [][NextPath]_vars

InitEncode ==
    /\ req = [i \in Req |-> IdleRequest]
    /\ log = <<>>
    /\ grpcCalls = <<>>
    /\ msg \in Messages
    /\ out = NotEncoded

NextEncode == Encode

\* messageToJSON applied to any message
SpecEncode == InitEncode /\ [][NextEncode]_vars

(***************************************************************************)
(* The example backend the calls are addressed to: service p.G (Greeter)   *)
(* with the unary method S (SayHello) and the server-streaming method W    *)
(* (Watch).  The bridge never consults it.                                 *)
(***************************************************************************)
BackendServices == {Greeter}
BackendMethods == {SayHello, Watch}
StreamingMethods == {Watch}

Terminal(r) == r.pc \in {"Responded", "Failed"}

\* a call of handleRPC that has ended and whose body could be read
EndedCall(r) ==
    /\ r.route = "rpc"
    /\ Terminal(r)
    /\ r.resp # TextResponse(BodyFailed)

\* the phases of the engine among the positions a call has been in
IsEnginePhase(ph) == ph \in {"Resolving", "Decoding", "Invoking", "Encoding"}
EnginePhases(r) == SelectSeq(r.hist, IsEnginePhase)
AllEnginePhases == <<"Resolving", "Decoding", "Invoking", "Encoding">>

IsPrefix(s, t) == Len(s) <= Len(t) /\ s = SubSeq(t, 1, Len(s))

\* requests sent over the backend connection, by kind
IsReflection(c) == c.rpc = "ServerReflectionInfo"
IsUnary(c) == c.rpc = "unary"
ReflectionFetches == Len(SelectSeq(grpcCalls, IsReflection))
UnaryCalls == Len(SelectSeq(grpcCalls, IsUnary))

\* the kind of the error body, when the response has one
ErrorKind(r) == IF "kind" \in DOMAIN r.resp THEN r.resp.kind ELSE None

\* where the log holds the line of request i
LogPos(line, i) ==
    {k \in 1..Len(log) : log[k] = [line |-> line, req |-> i]}
\* the call of i was answered before the call of j was logged
Sequential(i, j) ==
    \E a \in LogPos("sent", i) : \E b \in LogPos("call", j) : a < b
\* the calls of i and j were both logged before either was answered
Concurrent(i, j) ==
    \E ci \in LogPos("call", i) : \E cj \in LogPos("call", j) :
    \E si \in LogPos("sent", i) : \E sj \in LogPos("sent", j) :
        ci < sj /\ cj < si

\* C1: every call handled by handleRPC passes the phases Resolving,
\* Decoding, Invoking, Encoding in that order, none skipped or repeated; it
\* is Responded only after all four, and Failed from any phase
C1_PhaseOrder ==
    \A i \in Req :
        req[i].route = "rpc" =>
            /\ IsPrefix(EnginePhases(req[i]), AllEnginePhases)
            /\ req[i].pc = "Responded" =>
                   EnginePhases(req[i]) = AllEnginePhases

\* C2: a POST naming a service of the backend and a method the service does
\* not have is answered with status 404 and an error body of kind
\* UnknownMethod, never with a 2xx status
C2_UnknownMethod404 ==
    \A i \in Req :
        ( /\ EndedCall(req[i])
          /\ req[i].service \in BackendServices
          /\ req[i].method \notin BackendMethods )
        => /\ req[i].status = 404
           /\ ErrorKind(req[i]) = "UnknownMethod"

\* C3: a call whose method is streaming ends Failed with kind Unsupported
\* without entering Decoding or Invoking, and no unary RPC is issued
C3_StreamingRejected ==
    \A i \in Req :
        ( /\ EndedCall(req[i])
          /\ req[i].service \in BackendServices
          /\ req[i].method \in StreamingMethods )
        => /\ req[i].pc = "Failed"
           /\ ErrorKind(req[i]) = "Unsupported"
           /\ EnginePhases(req[i]) = <<"Resolving">>
           /\ UnaryCalls = 0

\* C4: when two or more calls concurrently resolve the same method, not
\* seen before, exactly one reflection fetch is issued and every one of the
\* calls resolves
C4_SingleFlight ==
    \A i, j \in Req :
        ( /\ i # j
          /\ req[i].pc = "Responded" /\ req[j].pc = "Responded"
          /\ req[i].fullMethod = FullMethod(Greeter, SayHello)
          /\ req[j].fullMethod = req[i].fullMethod
          /\ Concurrent(i, j) )
        => /\ ReflectionFetches = 1
           /\ IsPrefix(<<"Resolving", "Decoding">>, EnginePhases(req[i]))
           /\ IsPrefix(<<"Resolving", "Decoding">>, EnginePhases(req[j]))

\* C7: of two calls in sequence to the same method, the second resolves it
\* from the store, and both together issue at most one reflection fetch
C7_ResolveOnce ==
    \A i, j \in Req :
        ( /\ i # j
          /\ req[i].pc = "Responded" /\ req[j].pc = "Responded"
          /\ req[i].fullMethod = FullMethod(Greeter, SayHello)
          /\ req[j].fullMethod = req[i].fullMethod
          /\ Sequential(i, j) )
        => /\ ReflectionFetches <= 1
           /\ IsPrefix(<<"Resolving", "Decoding">>, EnginePhases(req[j]))

(***************************************************************************)
(* Path splitting (SpecPath).                                              *)
(***************************************************************************)
NoSlash(s) == \A k \in 1..Len(s) : s[k] # Slash
\* the slashes of a path after its first character
InnerSlashes(p) == Cardinality({k \in 2..Len(p) : p[k] = Slash})
\* handleRPC has decided on the path of the request
PathDecided(r) == r.route = "rpc" /\ r.pc # "Received"
PathRefused(r) ==
    /\ r.pc = "Failed"
    /\ r.status = StatusBadRequest
    /\ r.resp = TextResponse(InvalidPath)

\* C8 as stated: every path of two or more non-empty segments is accepted,
\* its method the last segment and its service all that precedes it
C8_AnyDepth ==
    \A i \in Req :
        LET r     == req[i]
            path  == TrimPrefix(r.path)
            parts == Split(path)
        IN  ( /\ PathDecided(r)
              /\ Len(parts) >= 2
              /\ \A k \in 1..Len(parts) : parts[k] # <<>> )
            => /\ ~PathRefused(r)
               /\ r.method = parts[Len(parts)]
               /\ r.service = SubSeq(path, 1, Len(path) - Len(r.method) - 1)
               /\ r.fullMethod = FullMethod(r.service, r.method)

\* C8 amended: handleRPC accepts exactly the paths with one slash after the
\* leading one; service and method are the parts before and after that
\* slash, so the full method is the path itself; every other path, deeper
\* ones included, is refused with 400
C8_TwoSegments ==
    \A i \in Req :
        LET r == req[i]
        IN  PathDecided(r) =>
                IF InnerSlashes(r.path) = 1
                THEN /\ ~PathRefused(r)
                     /\ r.fullMethod = r.path
                     /\ NoSlash(r.service)
                     /\ NoSlash(r.method)
                ELSE PathRefused(r)

\* a call with a dotted service name has been accepted and answered
C8_Witness ==
    \E i \in Req :
        /\ req[i].pc = "Responded"
        /\ req[i].service = <<"a", ".", "a">>
        /\ req[i].method = <<"a">>
        /\ req[i].resp.service = req[i].service

(***************************************************************************)
(* Encoding (SpecEncode).                                                  *)
(***************************************************************************)
Emitted(e) == e.emit # "omitted"

\* C10 as stated: a field holding its zero value is emitted only if it has
\* explicit presence and is set
C10_ZeroOmitted ==
    out.done =>
        \A k \in 1..Len(msg) :
            (msg[k].val = 0 /\ Emitted(out.json[k]))
            => (msg[k].presence # "implicit" /\ msg[k].set)

\* C10 amended: messageToJSON always emits defaults: a zero-valued field
\* without explicit presence is emitted with its zero value; a field with
\* explicit presence is emitted with a zero value only if it is set
C10_DefaultsEmitted ==
    out.done =>
        /\ Len(out.json) = Len(msg)
        /\ \A k \in 1..Len(msg) :
            /\ (msg[k].presence = "implicit" /\ msg[k].val = 0)
               => out.json[k] = Value(0)
            /\ (msg[k].presence # "implicit" /\ out.json[k] = Value(0))
               => msg[k].set

\* a message with a zero-valued field without presence and an unset field
\* with presence has been encoded
C10_Witness ==
    /\ out.done
    /\ \E k \in 1..Len(msg) :
           msg[k].presence = "implicit" /\ msg[k].val = 0
                                        /\ out.json[k] = Value(0)
    /\ \E k \in 1..Len(msg) :
           msg[k].presence = "oneof" /\ ~msg[k].set
                                     /\ out.json[k] = Omitted

====
